---- MODULE Spec2Model ----
(***************************************************************************)
(* A model of sac/envs/ant_maze_env.py (class AntMazeEnv): the maze layer  *)
(* that compiles a structural grid into a physics scene, wraps the engine's*)
(* reset/step with manual collision rollback, and composes observations    *)
(* (proprioception, block positions, range sensor, step counter).          *)
(*                                                                         *)
(* Arithmetic is exact.  Lengths in the x/y plane are integers in world    *)
(* units (one cell = size_scaling units).  Every value that can be a       *)
(* fraction in the program (z coordinates, pixels / 255, sensor readings,  *)
(* t * 0.001, view weights) is a pair <<numerator, denominator>>.  Angles  *)
(* are integers in degrees (2*pi = 360).  Ray directions are restricted to *)
(* the four axis directions, for which ray/segment intersection is exact.  *)
(***************************************************************************)
EXTENDS Integers, Sequences, FiniteSets, TLC

VARIABLES
    cfg,         \* the arguments of __init__ and the files/collaborators it reads
    pc,          \* "new": before __init__; "ready": instance returned; "failed": __init__ raised
    env,         \* the attributes __init__ sets on the instance (immutable afterwards)
    scene,       \* the elements appended to the XML tree, and whether the file was written
    eng,         \* the wrapped engine's state; eng.exists = FALSE when self.wrapped_env is unset
    t,           \* self.t, or Unset while the attribute does not exist
    trajectory,  \* self.trajectory, or Unset
    view,        \* self._view, a 5 x 5 x 3 array of weights (numerators over ViewDen)
    ret,         \* what the last call returned or raised
    loc          \* the local variables of the last step() call (old_pos, new_pos, engine's done)

vars == <<cfg, pc, env, scene, eng, t, trajectory, view, ret, loc>>

-----------------------------------------------------------------------------
(* Program constants and units *)

\* maze_size_scaling=8, the side of one cell in world units
size_scaling == 8

\* z coordinates are numerators over ZDen (0.75 and 0.1 * 2 are multiples of 1/20)
ZDen == 4 * 5

\* maze_height=0.5, as a numerator over ZDen
maze_height == ZDen \div 2

\* 2 * math.pi in degrees
TwoPi == 360

\* self.t while the attribute does not exist (reset() creates it)
Unset == -1

\* self.trajectory while the attribute does not exist
NoTrajectory == <<"unset">>

\* a rational number
Rat(n, d) == <<n, d>>

-----------------------------------------------------------------------------
(* Cell tags (maze_env_utils.Move and the literals 0, 1, -1, 'r') *)

Open == "0"
Wall == "1"
Chasm == "-1"
Robot == "r"
MoveTags == {"X", "Y", "Z", "XY", "XZ", "YZ", "XYZ", "SpinXY"}

can_move_x(struct) == struct \in {"X", "XY", "XZ", "XYZ", "SpinXY"}
can_move_y(struct) == struct \in {"Y", "XY", "YZ", "XYZ", "SpinXY"}
can_move_z(struct) == struct \in {"Z", "XZ", "YZ", "XYZ"}
can_spin(struct) == struct \in {"SpinXY"}
can_move(struct) == can_move_x(struct) \/ can_move_y(struct) \/ can_move_z(struct)

-----------------------------------------------------------------------------
(* Grids *)

NRows(structure) == Len(structure)
NCols(structure) == Len(structure[1])

\* structure[i][j], rows and columns counted from 0 as in the program
Cell(structure, i, j) == structure[i + 1][j + 1]

\* range(len(structure)) x range(len(structure[0])) in iteration order
RowMajor(structure) ==
    [k \in 1..(NRows(structure) * NCols(structure)) |->
        <<(k - 1) \div NCols(structure), (k - 1) % NCols(structure)>>]

\* the concatenation of a sequence of sequences, in order
RECURSIVE Concat(_)
Concat(seqs) ==
    IF Len(seqs) = 0 THEN <<>>
    ELSE IF Len(seqs) = 1 THEN seqs[1]
    ELSE Concat(SubSeq(seqs, 1, Len(seqs) \div 2))
         \o Concat(SubSeq(seqs, Len(seqs) \div 2 + 1, Len(seqs)))

\* a 12 x 12 grid whose cells (1, 11) and (11, 1), (1, 10) and (11, 0) have
\* two-digit indices
WideMaze ==
    [i \in 1..12 |-> [j \in 1..12 |->
        IF <<i - 1, j - 1>> = <<0, 0>> THEN Robot
        ELSE IF <<i - 1, j - 1>> \in {<<1, 11>>, <<11, 1>>} THEN Wall
        ELSE IF <<i - 1, j - 1>> \in {<<1, 10>>, <<11, 0>>} THEN "XYZ"
        ELSE IF <<i - 1, j - 1>> = <<0, 1>> THEN Chasm
        ELSE Open]]

\* the grids construct_maze can return, by maze identifier
Mazes ==
    [ Maze  |-> << <<Robot, Open, Wall>>,
                   <<Wall,  Open, Open>> >>,
      Two   |-> << <<Wall,  Open, Robot>>,
                   <<Robot, Open, Open>> >>,
      Fall  |-> << <<Robot, "YZ", Chasm>>,
                   <<Open,  Wall, Open>> >>,
      Push  |-> << <<Open,  "XY", Robot>>,
                   <<"Y",   Wall, Open>> >>,
      Empty |-> << <<Open,  Wall, Open>>,
                   <<Open,  Open, Chasm>> >>,
      Wide  |-> WideMaze ]

MazeIds == DOMAIN Mazes

\* maze_env_utils.construct_maze: the grid of a known identifier
construct_maze(maze_id) == Mazes[maze_id]

-----------------------------------------------------------------------------
(* Locating the robot-start cells *)

RobotCells(structure) ==
    SelectSeq(RowMajor(structure), LAMBDA c : Cell(structure, c[1], c[2]) = Robot)

\* the value of a call that raised instead of returning
Raised == <<"raised">>

\* a search that falls back to the grid's origin when there is no 'r' cell
find_robot_or_origin(structure) ==
    IF RobotCells(structure) = <<>>
    THEN <<0, 0>>
    ELSE LET c == Head(RobotCells(structure))
         IN  <<c[2] * size_scaling, c[1] * size_scaling>>

\* _find_robot: world coordinates of the first 'r' cell in row-major order;
\* falls through to `assert False` when there is none
find_robot(structure) ==
    IF RobotCells(structure) = <<>>
    THEN Raised
    ELSE LET c == Head(RobotCells(structure))
         IN  <<c[2] * size_scaling, c[1] * size_scaling>>

\* _find_all_robots: world coordinates of every 'r' cell, row-major
find_all_robots(structure) ==
    [k \in 1..Len(RobotCells(structure)) |->
        <<RobotCells(structure)[k][2] * size_scaling,
          RobotCells(structure)[k][1] * size_scaling>>]

\* self._init_positions
init_positions(structure, torso) ==
    [k \in 1..Len(find_all_robots(structure)) |->
        <<find_all_robots(structure)[k][1] - torso[1],
          find_all_robots(structure)[k][2] - torso[2]>>]

\* self.elevated
is_elevated(structure) ==
    \E i \in 1..NRows(structure) : \E j \in 1..NCols(structure) :
        structure[i][j] = Chasm

\* self.blocks
has_blocks(structure) ==
    \E i \in 1..NRows(structure) : \E j \in 1..NCols(structure) :
        can_move(structure[i][j])

\* height_offset, over ZDen
height_offset_of(elevated) == IF elevated THEN maze_height * size_scaling ELSE 0

-----------------------------------------------------------------------------
(* Names: "%d" formatting and the "<prefix>_%d_%d" % (i, j) patterns *)

DigitChar == <<"0", "1", "2", "3", "4", "5", "6", "7", "8", "9">>

\* "%d" % n for n >= 0, as the sequence of its decimal digits
RECURSIVE Dec(_)
Dec(n) == IF n < 10 THEN <<DigitChar[n + 1]>>
          ELSE Dec(n \div 10) \o <<DigitChar[(n % 10) + 1]>>

\* a pattern without the separator between the two indices
FmtName_unseparated(prefix, i, j) == <<prefix>> \o Dec(i) \o Dec(j)

\* "<prefix>%d_%d" % (i, j)
FmtName(prefix, i, j) == <<prefix>> \o Dec(i) \o <<"_">> \o Dec(j)

elevated_name(i, j) == FmtName("elevated_", i, j)
block_name(i, j) == FmtName("block_", i, j)
movable_name(i, j) == FmtName("movable_", i, j)
joint_name(prefix, i, j) == FmtName(prefix, i, j)

-----------------------------------------------------------------------------
(* The scene compiler: the loop of __init__ over the grid *)

\* a struct that is always the cell's own tag
struct_of_as_tagged(structure, put_spin, i, j) == Cell(structure, i, j)

\* struct = structure[i][j], reinterpreted when put_spin_near_agent is set
struct_of(structure, put_spin, i, j) ==
    IF Cell(structure, i, j) = Robot /\ put_spin
    THEN "SpinXY"
    ELSE Cell(structure, i, j)

\* a platform under every cell of an elevated grid, chasms included
platform_elems_everywhere(struct, elevated, torso, i, j) ==
    IF elevated
    THEN << [tag |-> "geom", kind |-> "platform", parent |-> "worldbody",
             name |-> elevated_name(i, j),
             pos |-> <<j * size_scaling - torso[1], i * size_scaling - torso[2],
                       Rat((maze_height \div 2) * size_scaling, ZDen)>>] >>
    ELSE <<>>

\* the elevated platform under a cell
platform_elems(struct, elevated, torso, i, j) ==
    IF elevated /\ struct # Chasm
    THEN << [tag |-> "geom", kind |-> "platform", parent |-> "worldbody",
             name |-> elevated_name(i, j),
             pos |-> <<j * size_scaling - torso[1], i * size_scaling - torso[2],
                       Rat((maze_height \div 2) * size_scaling, ZDen)>>] >>
    ELSE <<>>

\* a wall cell's static box
wall_elems(elevated, torso, i, j) ==
    << [tag |-> "geom", kind |-> "wall", parent |-> "worldbody",
        name |-> block_name(i, j),
        pos |-> <<j * size_scaling - torso[1], i * size_scaling - torso[2],
                  Rat(height_offset_of(elevated)
                      + (maze_height \div 2) * size_scaling, ZDen)>>] >>

\* height / 2 * size_scaling * height_shrink, over ZDen
block_half_height(struct) ==
    IF can_spin(struct)
    THEN ((maze_height \div 2) * size_scaling) \div 10
    ELSE (maze_height \div 2) * size_scaling

\* shrink, in hundredths
shrink_of(struct) ==
    IF can_spin(struct) THEN 10 ELSE IF can_move_z(struct) THEN 99 ELSE 100

\* the body position written for a movable block
block_pos(struct, elevated, torso, i, j) ==
    <<j * size_scaling - torso[1]
        + (IF can_spin(struct) THEN size_scaling \div 4 ELSE 0),
      i * size_scaling - torso[2],
      Rat(height_offset_of(elevated) + block_half_height(struct), ZDen)>>

\* a movable block: body, geometry and the joints its variant implies
movable_elems(struct, elevated, torso, i, j) ==
    << [tag |-> "body", kind |-> "movable", parent |-> "worldbody",
        name |-> movable_name(i, j),
        pos |-> block_pos(struct, elevated, torso, i, j)],
       [tag |-> "geom", kind |-> "movable", parent |-> movable_name(i, j),
        name |-> block_name(i, j),
        pos |-> <<0, 0, Rat(0, ZDen)>>,
        shrink |-> Rat(shrink_of(struct), 100),
        mass |-> IF can_move_z(struct) THEN Rat(10, 10000) ELSE Rat(2, 10000)] >>
    \o (IF can_move_x(struct)
        THEN << [tag |-> "joint", kind |-> "slide", parent |-> movable_name(i, j),
                 name |-> joint_name("movable_x_", i, j), axis |-> <<1, 0, 0>>,
                 limited |-> can_move_z(struct),
                 range |-> <<Rat(-size_scaling, 1), Rat(size_scaling, 1)>>] >>
        ELSE <<>>)
    \o (IF can_move_y(struct)
        THEN << [tag |-> "joint", kind |-> "slide", parent |-> movable_name(i, j),
                 name |-> joint_name("movable_y_", i, j), axis |-> <<0, 1, 0>>,
                 limited |-> can_move_z(struct),
                 range |-> <<Rat(-size_scaling, 1), Rat(size_scaling, 1)>>] >>
        ELSE <<>>)
    \o (IF can_move_z(struct)
        THEN << [tag |-> "joint", kind |-> "slide", parent |-> movable_name(i, j),
                 name |-> joint_name("movable_z_", i, j), axis |-> <<0, 0, 1>>,
                 limited |-> TRUE,
                 range |-> <<Rat(-height_offset_of(elevated), ZDen), Rat(0, ZDen)>>] >>
        ELSE <<>>)
    \o (IF can_spin(struct)
        THEN << [tag |-> "joint", kind |-> "ball", parent |-> movable_name(i, j),
                 name |-> joint_name("spinable_", i, j), axis |-> <<0, 0, 1>>,
                 limited |-> FALSE] >>
        ELSE <<>>)

\* everything one iteration of the loop body appends to the tree
cell_elems(structure, put_spin, elevated, torso, i, j) ==
    LET struct == struct_of(structure, put_spin, i, j)
    IN  platform_elems(struct, elevated, torso, i, j)
        \o (IF struct = Wall
            THEN wall_elems(elevated, torso, i, j)
            ELSE IF can_move(struct)
                 THEN movable_elems(struct, elevated, torso, i, j)
                 ELSE <<>>)

\* the elements the whole loop appends, in emission order
compile_scene(structure, put_spin, elevated, torso) ==
    Concat([k \in 1..Len(RowMajor(structure)) |->
        cell_elems(structure, put_spin, elevated, torso,
                   RowMajor(structure)[k][1], RowMajor(structure)[k][2])])

\* self.movable_blocks: (name, struct) of every movable cell, row-major
movable_blocks_of(structure, put_spin) ==
    Concat([k \in 1..Len(RowMajor(structure)) |->
        LET i == RowMajor(structure)[k][1]
            j == RowMajor(structure)[k][2]
            struct == struct_of(structure, put_spin, i, j)
        IN  IF struct # Wall /\ can_move(struct)
            THEN << <<movable_name(i, j), struct>> >>
            ELSE <<>>])

-----------------------------------------------------------------------------
(* The wrapped engine (AntEnv over the physics simulator): its state is    *)
(* the torso's x/y/z and orientation and the position of every movable     *)
(* body, looked up by name.                                                *)

\* the engine moves bodies on a lattice of half cells
MoveUnit == size_scaling \div 2

\* 0.75, the torso's rest height above its floor, over ZDen
TorsoRest == (3 * ZDen) \div 4

\* body positions as the compiled scene places them, by body name
scene_body_com(elems) ==
    LET bodies == SelectSeq(elems, LAMBDA e : e.tag = "body")
    IN  [name \in {bodies[k].name : k \in 1..Len(bodies)} |->
            (CHOOSE e \in {bodies[k] : k \in 1..Len(bodies)} : e.name = name).pos]

\* the torso's z at rest, over ZDen
torso_z(elevated) == TorsoRest + height_offset_of(elevated)

\* a block pushed one lattice step along an axis it can slide on, and
\* dropped to the floor when it can fall
pushed(com, struct, elevated) ==
    << com[1] + (IF can_move_x(struct) THEN MoveUnit ELSE 0),
       com[2] + (IF ~can_move_x(struct) /\ can_move_y(struct) THEN MoveUnit ELSE 0),
       Rat(com[3][1] - (IF can_move_z(struct) THEN height_offset_of(elevated) ELSE 0),
           ZDen) >>

\* the struct of a movable block, by body name
struct_by_name(blocks, name) ==
    (CHOOSE b \in {blocks[k] : k \in 1..Len(blocks)} : b[1] = name)[2]

\* the arrangements of torso height and movable bodies the engine can be in:
\* as compiled; every block pushed; the torso fallen off the platform
EngineWorlds(e, init_com) ==
    { [z |-> torso_z(e.elevated), body_com |-> init_com] }
    \cup
    { [z |-> torso_z(e.elevated),
       body_com |-> [name \in DOMAIN init_com |->
            pushed(init_com[name], struct_by_name(e.movable_blocks, name),
                   e.elevated)]] }
    \cup
    (IF e.elevated
     THEN { [z |-> TorsoRest, body_com |-> init_com] }
     ELSE {})

\* wrapped_env.get_body_com(name)
get_body_com(g, name) ==
    IF name = "torso"
    THEN <<g.xy[1], g.xy[2], Rat(g.z, ZDen)>>
    ELSE g.body_com[name]

\* wrapped_env._get_obs(): the proprioceptive vector, position first
wrapped_get_obs(g) ==
    <<Rat(g.xy[1], 1), Rat(g.xy[2], 1), Rat(g.z, ZDen), Rat(g.ori, 1)>>

\* wrapped_env.render(mode, width, height): width * height * 3 bytes
wrapped_render(g, width, height) ==
    [k \in 1..(width * height * 3) |->
        (16 * (g.xy[1] + 64) + (g.xy[2] + 64) + k) % 256]

\* the engine before __init__ has created it
NoEngine == [exists |-> FALSE]

\* positions the lattice of the model covers: the maze and half a cell around it
InArena(e, xy) ==
    /\ -MoveUnit - e.init_torso[1] <= xy[1]
    /\ xy[1] <= (NCols(e.structure) - 1) * size_scaling + MoveUnit - e.init_torso[1]
    /\ -MoveUnit - e.init_torso[2] <= xy[2]
    /\ xy[2] <= (NRows(e.structure) - 1) * size_scaling + MoveUnit - e.init_torso[2]

-----------------------------------------------------------------------------
(* The range sensor: get_range_sensor_obs *)

Abs(n) == IF n < 0 THEN -n ELSE n

\* the four boundary segments of the square of side size_scaling around (cx, cy)
struct_segments(cx, cy, type) ==
    LET x1 == cx - size_scaling \div 2
        x2 == cx + size_scaling \div 2
        y1 == cy - size_scaling \div 2
        y2 == cy + size_scaling \div 2
    IN  << [segment |-> << <<x1, y1>>, <<x2, y1>> >>, type |-> type],
           [segment |-> << <<x2, y1>>, <<x2, y2>> >>, type |-> type],
           [segment |-> << <<x2, y2>>, <<x1, y2>> >>, type |-> type],
           [segment |-> << <<x1, y2>>, <<x1, y1>> >>, type |-> type] >>

\* segments of the walls and drop-offs, row-major
static_segments(e) ==
    Concat([k \in 1..Len(RowMajor(e.structure)) |->
        LET i == RowMajor(e.structure)[k][1]
            j == RowMajor(e.structure)[k][2]
        IN  IF Cell(e.structure, i, j) \in {Wall, Chasm}
            THEN struct_segments(j * size_scaling - e.init_torso[1],
                                 i * size_scaling - e.init_torso[2],
                                 Cell(e.structure, i, j))
            ELSE <<>>])

\* a z-view that leaves its two bounds out
block_in_view_open(block_z, robot_z) ==
    /\ block_z[1] + (maze_height * size_scaling) \div 2 > robot_z[1]
    /\ robot_z[1] > block_z[1] - (maze_height * size_scaling) \div 2

\* "Block in view": the robot's z is within half a block height of the block's z
block_in_view(block_z, robot_z) ==
    /\ block_z[1] + (maze_height * size_scaling) \div 2 >= robot_z[1]
    /\ robot_z[1] >= block_z[1] - (maze_height * size_scaling) \div 2

\* segments of the movable blocks within the agent's z-view, in movable_blocks order
block_segments(e, g) ==
    Concat([k \in 1..Len(e.movable_blocks) |->
        LET com == get_body_com(g, e.movable_blocks[k][1])
        IN  IF block_in_view(com[3], get_body_com(g, "torso")[3])
            THEN struct_segments(com[1], com[2], e.movable_blocks[k][2])
            ELSE <<>>])

\* the segment list of one call
all_segments(e, g) == static_segments(e) \o block_segments(e, g)

\* rays that start on the edge of the span
ray_ori_from_edge(ori, sensor_span, n_bins, ray_idx) ==
    ori - sensor_span \div 2 + ((2 * ray_idx) * sensor_span) \div (2 * n_bins)

\* the angle of ray ray_idx, in degrees
ray_ori(ori, sensor_span, n_bins, ray_idx) ==
    ori - sensor_span \div 2 + ((2 * ray_idx + 1) * sensor_span) \div (2 * n_bins)

\* (cos, sin) of an angle that is a multiple of 90 degrees
Dir(theta) ==
    LET a == theta % TwoPi
    IN  IF a = 0 THEN <<1, 0>>
        ELSE IF a = TwoPi \div 4 THEN <<0, 1>>
        ELSE IF a = TwoPi \div 2 THEN <<-1, 0>>
        ELSE <<0, -1>>

AxisAligned(theta) == theta % (TwoPi \div 4) = 0

\* Python's None, where a point or a sequence is expected
None == <<>>

\* Python's None, where an index is expected
NoIdx == -(0 + 1)

\* maze_env_utils.ray_segment_intersect: the point where the ray from (x, y)
\* at angle theta meets the segment, None when the lines are parallel, the
\* meeting point is behind the ray's origin or it is off the segment
ray_segment_intersect(ray, segment) ==
    LET d == Dir(ray[2])
        ex == segment[2][1] - segment[1][1]
        ey == segment[2][2] - segment[1][2]
        wx == segment[1][1] - ray[1][1]
        wy == segment[1][2] - ray[1][2]
        det == d[1] * ey - d[2] * ex
        rnum == wx * ey - wy * ex
        snum == wx * d[2] - wy * d[1]
    IN  IF det = 0 THEN None
        ELSE IF rnum * det >= 0 /\ 0 <= snum * det /\ snum * det <= det * det
             THEN << ray[1][1] + d[1] * ((rnum * det) \div (det * det)),
                     ray[1][2] + d[2] * ((rnum * det) \div (det * det)) >>
             ELSE None

\* maze_env_utils.point_distance: Euclidean distance (exact along an axis)
point_distance(p, q) ==
    LET sq == (p[1] - q[1]) * (p[1] - q[1]) + (p[2] - q[2]) * (p[2] - q[2])
    IN  CHOOSE r \in 0..(Abs(p[1] - q[1]) + Abs(p[2] - q[2])) : r * r = sq

\* the segments a ray meets, in segment-list order, each with its distance
ray_segments(segments, robot_xy, theta) ==
    LET hits == SelectSeq(segments, LAMBDA seg :
                    ray_segment_intersect(<<robot_xy, theta>>, seg.segment) # None)
    IN  [k \in 1..Len(hits) |->
            [segment |-> hits[k].segment, type |-> hits[k].type, ray_ori |-> theta,
             distance |-> point_distance(
                 ray_segment_intersect(<<robot_xy, theta>>, hits[k].segment),
                 robot_xy)]]

\* a selection that takes the last of the segments at the least distance
first_seg_last_tie(rs) ==
    rs[CHOOSE k \in 1..Len(rs) :
        \A m \in 1..Len(rs) :
            rs[k].distance < rs[m].distance
            \/ (rs[k].distance = rs[m].distance /\ k >= m)]

\* sorted(ray_segments, key=distance)[0]: the sort is stable, so the first of
\* the segments at the least distance
first_seg(rs) ==
    rs[CHOOSE k \in 1..Len(rs) :
        \A m \in 1..Len(rs) :
            rs[k].distance < rs[m].distance
            \/ (rs[k].distance = rs[m].distance /\ k <= m)]

\* idx: the channel of a segment type
seg_channel(seg_type) ==
    IF seg_type = Wall THEN 0
    ELSE IF seg_type = Chasm THEN 1
    ELSE IF can_move(seg_type) THEN 2
    ELSE NoIdx

\* one row of sensor_readings
reading_row(rs, sensor_range) ==
    IF Len(rs) > 0 /\ first_seg(rs).distance <= sensor_range
    THEN [c \in 1..3 |->
            IF seg_channel(first_seg(rs).type) \in {c - 1, NoIdx}
            THEN Rat(sensor_range - first_seg(rs).distance, sensor_range)
            ELSE Rat(0, 1)]
    ELSE [c \in 1..3 |-> Rat(0, 1)]

\* self._sensor_range
sensor_range_of(c) == c.sensor_range * size_scaling

\* get_range_sensor_obs: the n_bins x 3 matrix of readings
get_range_sensor_obs(c, e, g) ==
    LET segments == all_segments(e, g)
        robot_xy == <<get_body_com(g, "torso")[1], get_body_com(g, "torso")[2]>>
    IN  [ray \in 1..c.n_bins |->
            reading_row(
                ray_segments(segments, robot_xy,
                             ray_ori(g.ori, c.sensor_span, c.n_bins, ray - 1)),
                sensor_range_of(c))]

-----------------------------------------------------------------------------
(* The top-down view: get_top_down_view *)

\* the shape of self._view
ViewRows == 5
ViewCols == 5
ViewChannels == 3

\* view weights are numerators over ViewDen (each factor is in 1/size_scaling)
ViewDen == size_scaling * size_scaling

\* np.zeros([5, 5, 3])
zero_view == [r \in 1..ViewRows |-> [c \in 1..ViewCols |-> [d \in 1..ViewChannels |-> 0]]]

\* int(v) for v = n / size_scaling: truncation toward zero
TruncCell(n) == IF n >= 0 THEN n \div size_scaling ELSE -((-n) \div size_scaling)

\* v % 1 for v = n / size_scaling, over size_scaling: Python's %, in [0, 1)
FracCell(n) == n % size_scaling

\* _xy_to_rowcol, each over size_scaling: 2 + (v + size_scaling / 2) / size_scaling
xy_to_rowcol(x, y) ==
    << 2 * size_scaling + y + size_scaling \div 2,
       2 * size_scaling + x + size_scaling \div 2 >>

Min(a, b) == IF a < b THEN a ELSE b
Max(a, b) == IF a > b THEN a ELSE b

\* the share of a unit cell that falls in the cell at offset k (-1, 0, 1)
\* from the one holding the fraction frac, over size_scaling
cell_share(frac, k) ==
    IF k = 0 THEN Min(size_scaling, frac + size_scaling \div 2)
                  - Max(0, frac - size_scaling \div 2)
    ELSE IF k = -1 THEN Max(0, size_scaling \div 2 - frac)
    ELSE Max(0, frac - size_scaling \div 2)

\* valid(row, col), rows and columns from 0
valid(row, col) == ViewRows > row /\ row >= 0 /\ ViewCols > col /\ col >= 0

\* what update_view(x, y, d) adds to cell (r, c) of channel d
update_view(x, y, robot_xy, r, c) ==
    LET rc == xy_to_rowcol(x - robot_xy[1], y - robot_xy[2])
        row == TruncCell(rc[1])
        col == TruncCell(rc[2])
    IN  IF r - row \in {-1, 0, 1} /\ c - col \in {-1, 0, 1} /\ valid(r, c)
        THEN cell_share(FracCell(rc[1]), r - row) * cell_share(FracCell(rc[2]), c - col)
        ELSE 0

\* the (x, y, d) of every update_view call of one get_top_down_view call
view_updates(e, g) ==
    Concat([k \in 1..Len(RowMajor(e.structure)) |->
        LET i == RowMajor(e.structure)[k][1]
            j == RowMajor(e.structure)[k][2]
        IN  IF Cell(e.structure, i, j) = Wall
            THEN << <<j * size_scaling - e.init_torso[1],
                      i * size_scaling - e.init_torso[2], 0>> >>
            ELSE IF Cell(e.structure, i, j) = Chasm
            THEN << <<j * size_scaling - e.init_torso[1],
                      i * size_scaling - e.init_torso[2], 1>> >>
            ELSE <<>>])
    \o [k \in 1..Len(e.movable_blocks) |->
            << get_body_com(g, e.movable_blocks[k][1])[1],
               get_body_com(g, e.movable_blocks[k][1])[2], 2 >>]

RECURSIVE SumShares(_, _, _, _, _)
SumShares(ups, robot_xy, r, c, d) ==
    IF ups = <<>> THEN 0
    ELSE (IF Head(ups)[3] = d
          THEN update_view(Head(ups)[1], Head(ups)[2], robot_xy, r, c)
          ELSE 0)
         + SumShares(Tail(ups), robot_xy, r, c, d)

\* a buffer that is kept instead of cleared
zeros_like_kept(v) == v

\* np.zeros_like(v)
zeros_like(v) ==
    [r \in DOMAIN v |-> [c \in DOMAIN v[r] |-> [d \in DOMAIN v[r][c] |-> 0]]]

\* get_top_down_view: the view drawn from zeros for the current positions
get_top_down_view(prev_view, e, g) ==
    [r \in 1..ViewRows |-> [c \in 1..ViewCols |-> [d \in 1..ViewChannels |->
        zeros_like(prev_view)[r][c][d]
        + SumShares(view_updates(e, g), << get_body_com(g, "torso")[1],
                                           get_body_com(g, "torso")[2] >>,
                    r - 1, c - 1, d - 1)]]]

-----------------------------------------------------------------------------
(* The observation: _get_obs *)

\* img.astype(float32) / 255.0, flattened
view_obs(c, g) ==
    IF c.top_down_view
    THEN [k \in 1..Len(wrapped_render(g, c.image_size, c.image_size)) |->
            Rat(wrapped_render(g, c.image_size, c.image_size)[k], 255)]
    ELSE <<>>

\* a body position as three observation components
com_obs(com) == <<Rat(com[1], 1), Rat(com[2], 1), com[3]>>

\* a proprioceptive vector with the block positions appended at its end
spliced_obs_appended(c, e, g) ==
    IF c.observe_blocks
    THEN wrapped_get_obs(g)
         \o Concat([k \in 1..Len(e.movable_blocks) |->
                com_obs(get_body_com(g, e.movable_blocks[k][1]))])
    ELSE wrapped_get_obs(g)

\* the proprioceptive vector, with the block positions spliced in after its
\* first three components when blocks are observed
spliced_obs(c, e, g) ==
    IF c.observe_blocks
    THEN SubSeq(wrapped_get_obs(g), 1, 3)
         \o Concat([k \in 1..Len(e.movable_blocks) |->
                com_obs(get_body_com(g, e.movable_blocks[k][1]))])
         \o SubSeq(wrapped_get_obs(g), 4, Len(wrapped_get_obs(g)))
    ELSE wrapped_get_obs(g)

\* range_sensor_obs.flat: the readings row by row
flat(readings) == Concat(readings)

\* self.t * 0.001
scaled_t(tt) == Rat(tt, 1000)

\* _get_obs, for an instance that has its engine and its counter
get_obs(c, e, g, tt) ==
    view_obs(c, g)
    \o spliced_obs(c, e, g)
    \o flat(get_range_sensor_obs(c, e, g))
    \o <<scaled_t(tt)>>

-----------------------------------------------------------------------------
(* Bounds of the model *)

\* step() calls per episode
MaxSteps == 2

\* image_size ranges over 1..MaxImageSize
MaxImageSize == 1

\* n_bins ranges over 0..MaxBins
MaxBins == 4

-----------------------------------------------------------------------------
(* Inputs *)

\* a <geom> of the torso without a name attribute
NoName == "<no name>"

\* the <geom> elements under the torso body of the model's XML file, by name
NamedTorso == <<"torso_geom", "aux_1_geom">>
TorsoGeomOptions ==
    { NamedTorso,
      <<"torso_geom", NoName>>,
      <<"torso_geom", "torso_geom">> }

\* how the engine's constructor ends
EngineOutcomes == {"ok", "AssertionError", "Exception"}

\* the division of ray_ori is exact and every ray runs along an axis
ExactRays(n_bins, sensor_span, heading) ==
    /\ sensor_span % 2 = 0
    /\ \A k \in 0..(n_bins - 1) :
        /\ ((2 * k + 1) * sensor_span) % (2 * n_bins) = 0
        /\ AxisAligned(ray_ori(heading, sensor_span, n_bins, k))

\* sensor settings and engine headings
SensorConfigs ==
    { sc \in [n_bins : 0..MaxBins,
              sensor_span : {TwoPi, (3 * TwoPi) \div 4, TwoPi \div 2},
              sensor_range : {1, 3},
              heading : {0, TwoPi \div 8, TwoPi \div 4, TwoPi \div 2}] :
        ExactRays(sc.n_bins, sc.sensor_span, sc.heading) }

\* the default span and range, a ray to either side of the heading
LifeCycleSensors ==
    { sc \in SensorConfigs :
        /\ sc.sensor_span = TwoPi
        /\ sc.sensor_range = 3
        /\ sc.heading = TwoPi \div 4
        /\ sc.n_bins = 2 }

Configs(mazes, sensors, spins, torsos, outcomes) ==
    { [maze_id |-> m, n_bins |-> sc.n_bins, sensor_range |-> sc.sensor_range,
       sensor_span |-> sc.sensor_span, heading |-> sc.heading,
       observe_blocks |-> ob, put_spin_near_agent |-> ps, top_down_view |-> td,
       image_size |-> im, manual_collision |-> mc,
       torso_geoms |-> tg, engine_outcome |-> eo] :
        m \in mazes, sc \in sensors,
        ob \in BOOLEAN, ps \in spins, td \in BOOLEAN,
        im \in 1..MaxImageSize, mc \in BOOLEAN,
        tg \in torsos, eo \in outcomes }

NoEnv == [exists |-> FALSE]
NoScene == [elems |-> <<>>, written |-> FALSE]
NoView == <<>>
NoLoc == [set |-> FALSE]

\* before __init__ runs on the configuration
Fresh ==
    /\ pc = "new"
    /\ env = NoEnv
    /\ scene = NoScene
    /\ eng = NoEngine
    /\ t = Unset
    /\ trajectory = NoTrajectory
    /\ view = NoView
    /\ ret = [op |-> "none", raised |-> "none"]
    /\ loc = NoLoc

\* one environment through construction, resets and steps
Init ==
    /\ cfg \in Configs({"Maze", "Two", "Push"}, LifeCycleSensors, {FALSE},
                       {NamedTorso}, {"ok", "AssertionError"})
    /\ Fresh

-----------------------------------------------------------------------------
(* __init__ *)

\* a torso check that accepts every geom
torso_geoms_unchecked(geoms) == TRUE

\* the torso check: every geom under the torso has a name attribute
torso_geoms_named(geoms) == \A k \in 1..Len(geoms) : geoms[k] # NoName

\* the engine as its constructor leaves it, loaded from the scene file
new_engine(c, e, elems) ==
    [exists |-> TRUE, xy |-> <<0, 0>>, z |-> torso_z(e.elevated),
     ori |-> c.heading, body_com |-> scene_body_com(elems),
     init_com |-> scene_body_com(elems)]

\* the attributes __init__ sets before it builds the scene
new_env(c, structure) ==
    [exists |-> TRUE,
     structure |-> structure,
     elevated |-> is_elevated(structure),
     blocks |-> has_blocks(structure),
     init_torso |-> find_robot(structure),
     init_positions |-> init_positions(structure, find_robot(structure)),
     movable_blocks |-> movable_blocks_of(structure, c.put_spin_near_agent)]

Fail(exc) ==
    /\ pc' = "failed"
    /\ ret' = [op |-> "__init__", raised |-> exc]
    /\ UNCHANGED <<cfg, env, eng, t, trajectory, view, loc>>

Construct ==
    /\ pc = "new"
    /\ IF cfg.maze_id \notin MazeIds
       THEN \* construct_maze rejects the identifier
            Fail("ValueError") /\ UNCHANGED scene
       ELSE \E structure \in {construct_maze(cfg.maze_id)} :
            IF find_robot(structure) = Raised
            THEN \* `assert False`; with assertions compiled out, None is unpacked
                 \E exc \in {"AssertionError", "TypeError"} :
                    Fail(exc) /\ UNCHANGED scene
            ELSE \E e \in {new_env(cfg, structure)} :
                 \E elems \in {compile_scene(structure, cfg.put_spin_near_agent,
                                             e.elevated, e.init_torso)} :
                     IF ~torso_geoms_named(cfg.torso_geoms)
                     THEN /\ Fail("Exception")
                          /\ scene' = [elems |-> elems, written |-> FALSE]
                     ELSE /\ scene' = [elems |-> elems, written |-> TRUE]
                          /\ IF cfg.engine_outcome = "ok"
                             THEN /\ pc' = "ready"
                                  /\ env' = e
                                  /\ eng' = new_engine(cfg, e, elems)
                                  /\ view' = zero_view
                                  /\ ret' = [op |-> "__init__", raised |-> "none"]
                                  /\ UNCHANGED <<cfg, t, trajectory, loc>>
                             ELSE IF cfg.engine_outcome = "AssertionError"
                             THEN \* `except AssertionError: pass`
                                  /\ pc' = "ready"
                                  /\ env' = e
                                  /\ view' = zero_view
                                  /\ ret' = [op |-> "__init__", raised |-> "none"]
                                  /\ UNCHANGED <<cfg, eng, t, trajectory, loc>>
                             ELSE Fail(cfg.engine_outcome)

-----------------------------------------------------------------------------
(* reset() and step() *)

\* where the engine's own reset can leave the torso (its start plus noise)
EngineResetXY == { <<0, 0>>, <<0, MoveUnit>> }

\* how far one engine step can carry the torso
Moves == { <<0, 0>>, <<MoveUnit, 0>>, <<-MoveUnit, 0>>, <<0, MoveUnit>>, <<0, -MoveUnit>> }

\* the rewards the engine hands out
Rewards == {0, 1}

\* wrapped_env.set_xy(xy)
set_xy(g, xy) == [g EXCEPT !.xy = xy]

\* wrapped_env.get_xy()
get_xy(g) == g.xy

\* wrapped_env.reset(): the compiled arrangement, the torso near its start
wrapped_reset(g, e, xy) ==
    [g EXCEPT !.xy = xy, !.z = torso_z(e.elevated), !.body_com = g.init_com]

\* the counter reset() starts from
reset_t == 0

\* a reset that also overrides the position of a single start cell
reset_positions_always(e, xy) ==
    IF Len(e.init_positions) > 0
    THEN { e.init_positions[k] : k \in 1..Len(e.init_positions) }
    ELSE { xy }

\* the positions reset() can leave the torso at, the engine having put it at xy
reset_positions(e, xy) ==
    IF Len(e.init_positions) > 1
    THEN { e.init_positions[k] : k \in 1..Len(e.init_positions) }
    ELSE { xy }

Reset ==
    /\ pc = "ready"
    /\ t' = reset_t
    /\ trajectory' = <<>>
    /\ loc' = NoLoc
    /\ UNCHANGED <<cfg, pc, env, scene, view>>
    /\ IF ~eng.exists
       THEN \* self.wrapped_env does not exist
            /\ ret' = [op |-> "reset", raised |-> "AttributeError"]
            /\ UNCHANGED eng
       ELSE \E exy \in EngineResetXY :
            \E xy \in reset_positions(env, exy) :
            \E g \in {set_xy(wrapped_reset(eng, env, exy), xy)} :
              /\ eng' = g
              /\ ret' = [op |-> "reset", raised |-> "none",
                         obs |-> get_obs(cfg, env, g, reset_t),
                         engine_xy |-> exy]

\* a collision test that leaves the boundary of the wall cells out
is_in_collision_open(e, pos) ==
    \E k \in 1..Len(RowMajor(e.structure)) :
        LET i == RowMajor(e.structure)[k][1]
            j == RowMajor(e.structure)[k][2]
            minx == j * size_scaling - size_scaling \div 2 - e.init_torso[1]
            maxx == j * size_scaling + size_scaling \div 2 - e.init_torso[1]
            miny == i * size_scaling - size_scaling \div 2 - e.init_torso[2]
            maxy == i * size_scaling + size_scaling \div 2 - e.init_torso[2]
        IN  /\ Cell(e.structure, i, j) = Wall
            /\ minx < pos[1] /\ pos[1] < maxx
            /\ miny < pos[2] /\ pos[2] < maxy

\* _is_in_collision: pos is within the bounds of some wall cell
is_in_collision(e, pos) ==
    \E k \in 1..Len(RowMajor(e.structure)) :
        LET i == RowMajor(e.structure)[k][1]
            j == RowMajor(e.structure)[k][2]
            minx == j * size_scaling - size_scaling \div 2 - e.init_torso[1]
            maxx == j * size_scaling + size_scaling \div 2 - e.init_torso[1]
            miny == i * size_scaling - size_scaling \div 2 - e.init_torso[2]
            maxy == i * size_scaling + size_scaling \div 2 - e.init_torso[2]
        IN  /\ Cell(e.structure, i, j) = Wall
            /\ minx <= pos[1] /\ pos[1] <= maxx
            /\ miny <= pos[2] /\ pos[2] <= maxy

\* a step that never restores the position
step_position_kept(manual_collision, e, old_pos, new_pos) == new_pos

\* the position step() leaves the torso at
step_position(manual_collision, e, old_pos, new_pos) ==
    IF manual_collision /\ is_in_collision(e, new_pos) THEN old_pos ELSE new_pos

\* the locals of step(): get_xy() is read in manual-collision mode only
step_locals(manual_collision, old_pos, new_pos, inner_reward, inner_done) ==
    IF manual_collision
    THEN [set |-> TRUE, old_pos |-> old_pos, new_pos |-> new_pos,
          inner_reward |-> inner_reward, done |-> inner_done]
    ELSE [set |-> TRUE, inner_reward |-> inner_reward, done |-> inner_done]

\* a counter that step() leaves alone
step_t_unchanged(tt) == tt

\* self.t += 1
step_t(tt) == tt + 1

\* a done flag passed through from the engine
step_done_engine(inner_done) == inner_done

\* the done flag step() returns
step_done(inner_done) == FALSE

\* the reward step() returns
step_reward(inner_reward) == inner_reward

Step ==
    /\ pc = "ready"
    /\ UNCHANGED <<cfg, pc, env, scene, view, trajectory>>
    /\ IF ~eng.exists \/ t = Unset
       THEN \* update_cam on a missing wrapped_env, or += on a missing t
            /\ ret' = [op |-> "step", raised |-> "AttributeError"]
            /\ loc' = NoLoc
            /\ UNCHANGED <<eng, t>>
       ELSE /\ t < MaxSteps
            /\ t' = step_t(t)
            /\ \E d \in Moves, w \in EngineWorlds(env, eng.init_com) :
               \E old_pos \in {get_xy(eng)} :
               \E new_pos \in {<<eng.xy[1] + d[1], eng.xy[2] + d[2]>>} :
               \E g \in {[eng EXCEPT
                            !.xy = step_position(cfg.manual_collision, env,
                                                 old_pos, new_pos),
                            !.z = w.z, !.body_com = w.body_com]} :
               \E next_obs \in {get_obs(cfg, env, g, step_t(t))} :
                 /\ InArena(env, new_pos)
                 /\ eng' = g
                 /\ \E inner_reward \in Rewards, inner_done \in BOOLEAN :
                     /\ loc' = step_locals(cfg.manual_collision, old_pos, new_pos,
                                           inner_reward, inner_done)
                     /\ ret' = [op |-> "step", raised |-> "none",
                                obs |-> next_obs,
                                reward |-> step_reward(inner_reward),
                                done |-> step_done(inner_done)]

-----------------------------------------------------------------------------
(* Queries *)

\* a query on an instance that lacks the attribute it reads
QueryRaises(op) ==
    /\ ret' = [op |-> op, raised |-> "AttributeError"]
    /\ UNCHANGED view

GetObs ==
    /\ pc = "ready"
    /\ loc' = NoLoc
    /\ UNCHANGED <<cfg, pc, env, scene, eng, t, trajectory>>
    /\ IF ~eng.exists \/ t = Unset
       THEN QueryRaises("_get_obs")
       ELSE /\ ret' = [op |-> "_get_obs", raised |-> "none",
                       obs |-> get_obs(cfg, env, eng, t)]
            /\ UNCHANGED view

\* observation_space: an unbounded box of the shape of one _get_obs() probe
observation_space(c, e, g, tt) == <<Len(get_obs(c, e, g, tt))>>

ObservationSpace ==
    /\ pc = "ready"
    /\ loc' = NoLoc
    /\ UNCHANGED <<cfg, pc, env, scene, eng, t, trajectory>>
    /\ IF ~eng.exists \/ t = Unset
       THEN QueryRaises("observation_space")
       ELSE /\ ret' = [op |-> "observation_space", raised |-> "none",
                       shape |-> observation_space(cfg, env, eng, t)]
            /\ UNCHANGED view

\* the angles get_range_sensor_obs casts its rays at, in ray order
sensor_ray_oris(c, g) ==
    [ray \in 1..c.n_bins |-> ray_ori(g.ori, c.sensor_span, c.n_bins, ray - 1)]

GetRangeSensorObs ==
    /\ pc = "ready"
    /\ loc' = IF eng.exists
              THEN [set |-> TRUE, ray_ori |-> sensor_ray_oris(cfg, eng)]
              ELSE NoLoc
    /\ UNCHANGED <<cfg, pc, env, scene, eng, t, trajectory>>
    /\ IF ~eng.exists
       THEN QueryRaises("get_range_sensor_obs")
       ELSE /\ ret' = [op |-> "get_range_sensor_obs", raised |-> "none",
                       readings |-> get_range_sensor_obs(cfg, env, eng)]
            /\ UNCHANGED view

GetTopDownView ==
    /\ pc = "ready"
    /\ loc' = NoLoc
    /\ UNCHANGED <<cfg, pc, env, scene, eng, t, trajectory>>
    /\ IF ~eng.exists
       THEN \* the view is zeroed before the engine is read
            /\ view' = zeros_like(view)
            /\ ret' = [op |-> "get_top_down_view", raised |-> "AttributeError"]
       ELSE \E v \in {get_top_down_view(view, env, eng)} :
            /\ view' = v
            /\ ret' = [op |-> "get_top_down_view", raised |-> "none", view |-> v]

-----------------------------------------------------------------------------
(* Specifications *)

Next ==
    \/ Construct
    \/ Reset
    \/ Step

Spec == Init /\ [][Next]_vars

\* construction alone, over every configuration
InitConstruct ==
    /\ cfg \in Configs(MazeIds \cup {"Unknown"}, LifeCycleSensors, BOOLEAN,
                       TorsoGeomOptions, EngineOutcomes)
    /\ Fresh

NextConstruct == Construct

SpecConstruct == InitConstruct /\ [][NextConstruct]_vars


\* the life cycle with the queries a caller can make between the calls
InitCalls ==
    /\ cfg \in { c \in Configs({"Maze"}, LifeCycleSensors, {FALSE},
                               {NamedTorso}, {"ok"}) :
                    c.manual_collision /\ c.observe_blocks /\ c.top_down_view }
    /\ Fresh

NextCalls ==
    \/ Construct
    \/ Reset
    \/ Step
    \/ GetObs
    \/ ObservationSpace
    \/ GetRangeSensorObs
    \/ GetTopDownView

SpecCalls == InitCalls /\ [][NextCalls]_vars

\* every lattice position of the arena
ArenaXY(e) ==
    { xy \in { <<MoveUnit * a - e.init_torso[1], MoveUnit * b - e.init_torso[2]>> :
                 a \in -1..(2 * NCols(e.structure) - 1),
                 b \in -1..(2 * NRows(e.structure) - 1) } :
        InArena(e, xy) }

\* the range sensor alone: a constructed environment with the torso and the
\* blocks anywhere the engine can put them
InitSensor ==
    /\ cfg \in { c \in Configs({"Fall", "Push"}, SensorConfigs, BOOLEAN,
                               {NamedTorso}, {"ok"}) :
                    /\ ~c.manual_collision /\ ~c.observe_blocks /\ ~c.top_down_view
                    /\ c.image_size = 1
                    /\ (c.n_bins = 0 =>
                            /\ c.sensor_span = TwoPi /\ c.sensor_range = 3
                            /\ c.heading = 0) }
    /\ pc = "ready"
    /\ env = new_env(cfg, construct_maze(cfg.maze_id))
    /\ scene = [elems |-> compile_scene(env.structure, cfg.put_spin_near_agent,
                                        env.elevated, env.init_torso),
                written |-> TRUE]
    /\ \E xy \in ArenaXY(env) :
       \E w \in EngineWorlds(env, scene_body_com(scene.elems)) :
          eng = [new_engine(cfg, env, scene.elems) EXCEPT
                    !.xy = xy, !.z = w.z, !.body_com = w.body_com]
    /\ t = Unset
    /\ trajectory = NoTrajectory
    /\ view = zero_view
    /\ ret = [op |-> "__init__", raised |-> "none"]
    /\ loc = NoLoc

NextSensor == GetRangeSensorObs

SpecSensor == InitSensor /\ [][NextSensor]_vars


-----------------------------------------------------------------------------
(* Properties of step() and reset() *)

\* a call of op has returned normally
Returned(op) == ret.op = op /\ ret.raised = "none"

\* the robot-start cells of the grid, as (row, col)
StartCells(structure) ==
    { rc \in (0..(NRows(structure) - 1)) \X (0..(NCols(structure) - 1)) :
        structure[rc[1] + 1][rc[2] + 1] = "r" }

\* the first robot-start cell in row-major order
FirstStart(structure) ==
    CHOOSE rc \in StartCells(structure) :
        \A o \in StartCells(structure) :
            rc[1] < o[1] \/ (rc[1] = o[1] /\ rc[2] <= o[2])

\* world coordinates of the centre of cell (row, col): the first start cell
\* is the origin
WorldXY(structure, rc) ==
    <<(rc[2] - FirstStart(structure)[2]) * size_scaling,
      (rc[1] - FirstStart(structure)[1]) * size_scaling>>

\* xy lies in the closed square of side size_scaling centred on a wall cell
InWallSquare(structure, xy) ==
    \E rc \in (0..(NRows(structure) - 1)) \X (0..(NCols(structure) - 1)) :
        /\ structure[rc[1] + 1][rc[2] + 1] = "1"
        /\ 2 * Abs(xy[1] - WorldXY(structure, rc)[1]) <= size_scaling
        /\ 2 * Abs(xy[2] - WorldXY(structure, rc)[2]) <= size_scaling

\* xy lies strictly inside the square of a wall cell
InWallInterior(structure, xy) ==
    \E rc \in (0..(NRows(structure) - 1)) \X (0..(NCols(structure) - 1)) :
        /\ structure[rc[1] + 1][rc[2] + 1] = "1"
        /\ 2 * Abs(xy[1] - WorldXY(structure, rc)[1]) < size_scaling
        /\ 2 * Abs(xy[2] - WorldXY(structure, rc)[2]) < size_scaling

\* number of leading view components of an observation
ViewLen(c) == IF c.top_down_view THEN c.image_size * c.image_size * 3 ELSE 0

\* the (x, y) an observation reports
ObsXY(c, obs) == <<obs[ViewLen(c) + 1], obs[ViewLen(c) + 2]>>

\* C1: in manual-collision mode, a step whose engine position lies in the
\* closed square of a wall cell leaves the torso at the position it had
\* before the engine step and returns the observation of that restored
\* position; a step whose engine position is in no wall cell keeps it.
C1_RollbackIntoWall ==
    (Returned("step") /\ cfg.manual_collision) =>
        /\ InWallSquare(env.structure, loc.new_pos) => eng.xy = loc.old_pos
        /\ ~InWallSquare(env.structure, loc.new_pos) => eng.xy = loc.new_pos
        /\ ObsXY(cfg, ret.obs) = <<Rat(eng.xy[1], 1), Rat(eng.xy[2], 1)>>
        /\ ret.obs = get_obs(cfg, env, eng, t)

\* a step was rolled back from the boundary of a wall cell
C1_Witness ==
    /\ Returned("step") /\ cfg.manual_collision
    /\ InWallSquare(env.structure, loc.new_pos)
    /\ ~InWallInterior(env.structure, loc.new_pos)
    /\ loc.new_pos # loc.old_pos
    /\ eng.xy = loc.old_pos

\* C2: every step returns done = False whatever the engine reported, with
\* or without manual collision and rollback, and returns the engine's
\* reward unchanged.
C2_DoneFalseRewardThrough ==
    Returned("step") => ret.done = FALSE /\ ret.reward = loc.inner_reward

\* the engine reported done on a step that was rolled back
C2_Witness ==
    /\ Returned("step") /\ cfg.manual_collision
    /\ loc.done = TRUE /\ loc.inner_reward = 1
    /\ loc.new_pos # eng.xy
    /\ ret.done = FALSE

\* C3: reset() resets the engine; with more than one robot-start cell the
\* torso is then at one of the start offsets, with exactly one it is where
\* the engine's reset put it; the first observation reports that position.
C3_ResetStart ==
    Returned("reset") =>
        /\ t = 0
        /\ eng.body_com = eng.init_com
        /\ IF Cardinality(StartCells(env.structure)) > 1
           THEN eng.xy \in { WorldXY(env.structure, rc) :
                               rc \in StartCells(env.structure) }
           ELSE eng.xy = ret.engine_xy
        /\ ObsXY(cfg, ret.obs) = <<Rat(eng.xy[1], 1), Rat(eng.xy[2], 1)>>

\* a reset chose a start cell other than the first
C3_Witness ==
    /\ Returned("reset")
    /\ Cardinality(StartCells(env.structure)) > 1
    /\ eng.xy # <<0, 0>>
    /\ eng.xy # ret.engine_xy
    /\ eng.xy = WorldXY(env.structure, <<1, 0>>)


\* lengths of the segments of an observation
ProprioLen == Len(wrapped_get_obs(eng))
BlocksLen == IF cfg.observe_blocks THEN 3 * Len(env.movable_blocks) ELSE 0
SensorLen == 3 * cfg.n_bins

\* C5: every observation returned by reset() and step() is, in this order,
\* the normalised view pixels (top-down mode only), the first 3
\* proprioceptive components, the position of every movable block in
\* movable_blocks order (block observation only), the remaining
\* proprioceptive components, the sensor readings row by row, and the
\* scaled step counter; its length is the sum of these segments and is the
\* shape observation_space reports.
C5_ObservationLayout ==
    (Returned("reset") \/ Returned("step")) =>
        \A obs \in {ret.obs} :
        \A W \in {wrapped_get_obs(eng) \o <<>>} :
        \A img \in {wrapped_render(eng, cfg.image_size, cfg.image_size) \o <<>>} :
        \A readings \in {get_range_sensor_obs(cfg, env, eng) \o <<>>} :
        \A V \in {ViewLen(cfg)} :
            /\ Len(obs) = V + ProprioLen + BlocksLen + SensorLen + 1
            /\ <<Len(obs)>> = observation_space(cfg, env, eng, t)
            /\ \A k \in 1..V : obs[k] = Rat(img[k], 255)
            /\ \A k \in 1..3 : obs[V + k] = W[k]
            /\ \A b \in 1..(BlocksLen \div 3) :
                  LET com == eng.body_com[env.movable_blocks[b][1]]
                  IN  /\ obs[V + 3 * b + 1] = Rat(com[1], 1)
                      /\ obs[V + 3 * b + 2] = Rat(com[2], 1)
                      /\ obs[V + 3 * b + 3] = com[3]
            /\ \A k \in 4..ProprioLen : obs[V + BlocksLen + k] = W[k]
            /\ \A n \in 1..cfg.n_bins : \A ch \in 1..3 :
                  obs[V + ProprioLen + BlocksLen + 3 * (n - 1) + ch]
                      = readings[n][ch]
            /\ obs[Len(obs)] = Rat(t, 1000)

\* a step returned an observation with every optional segment present
C5_Witness ==
    /\ Returned("step")
    /\ cfg.top_down_view /\ cfg.observe_blocks
    /\ Len(env.movable_blocks) = 2
    /\ cfg.n_bins > 0
    /\ Len(ret.obs) = 3 + 4 + 6 + 3 * cfg.n_bins + 1

\* C4: the step counter is 0 and the trajectory log empty after each
\* reset, a step that returns (rolled back or not) adds exactly 1, no other
\* call changes either, and the last component of every observation
\* returned by reset and step is the counter over 1000.
C4_StepCounter ==
    [][ /\ ret'.op = "reset" => t' = 0 /\ trajectory' = <<>>
        /\ (ret'.op = "step" /\ ret'.raised = "none") => t' = t + 1
        /\ ret'.op \notin {"reset", "step"} =>
              t' = t /\ trajectory' = trajectory
        /\ (ret'.op \in {"reset", "step"} /\ ret'.raised = "none") =>
              ret'.obs[Len(ret'.obs)] = Rat(t', 1000) ]_vars

\* a second step after a reset was rolled back
C4_Witness ==
    /\ Returned("step") /\ cfg.manual_collision
    /\ loc.new_pos # eng.xy
    /\ t = 2
    /\ ret.obs[Len(ret.obs)] = Rat(2, 1000)


-----------------------------------------------------------------------------
(* Properties of construction *)

\* __init__ has run on a known maze
Constructed == pc # "new" /\ cfg.maze_id \in MazeIds

\* the grid of the configuration has a robot-start cell
HasStart == StartCells(Mazes[cfg.maze_id]) # {}

\* C8: constructing an environment whose grid has no robot-start cell
\* fails with a fatal error: no instance is returned, no scene file is
\* written and no engine is created.
C8_NoStartIsFatal ==
    (Constructed /\ ~HasStart) =>
        /\ pc = "failed"
        /\ ret.raised \in {"AssertionError", "TypeError"}
        /\ env = NoEnv
        /\ ~scene.written
        /\ ~eng.exists

\* construction of a maze without a start cell was attempted
C8_Witness ==
    /\ Constructed /\ ~HasStart
    /\ cfg.engine_outcome = "ok" /\ cfg.torso_geoms = NamedTorso
    /\ ret.op = "__init__" /\ ret.raised = "AssertionError"

\* every torso geom has a name and no two share one
TorsoNamesUnique(geoms) ==
    /\ \A k \in 1..Len(geoms) : geoms[k] # "<no name>"
    /\ \A k, l \in 1..Len(geoms) : k # l => geoms[k] # geoms[l]

\* C9 as stated: a torso geometry without a name, or two torso geometries
\* sharing a name, make construction raise and no engine is created.
C9_UniqueOrFatal ==
    (Constructed /\ HasStart /\ ~TorsoNamesUnique(cfg.torso_geoms)) =>
        pc = "failed" /\ ret.raised # "none" /\ ~eng.exists

\* C9: a torso geometry without a name makes construction raise before the
\* scene file is written and no engine is created; when every torso
\* geometry has a name, shared or not, the check passes and the scene file
\* is written for the engine.
C9_NamedOrFatal ==
    (Constructed /\ HasStart) =>
        IF \E k \in 1..Len(cfg.torso_geoms) : cfg.torso_geoms[k] = "<no name>"
        THEN /\ pc = "failed" /\ ret.raised = "Exception"
             /\ ~scene.written /\ ~eng.exists /\ env = NoEnv
        ELSE scene.written

\* construction stopped at a torso geometry without a name
C9_Witness ==
    /\ Constructed /\ HasStart
    /\ cfg.torso_geoms = <<"torso_geom", "<no name>">>
    /\ cfg.engine_outcome = "ok"
    /\ pc = "failed" /\ ret.raised = "Exception"
    /\ Len(scene.elems) > 0

\* C10: for every grid and flag setting, the elements the scene compiler
\* emits carry pairwise distinct names within each element type: no two
\* geometries, no two bodies and no two joints share a name.
C10_DistinctNames ==
    (Constructed /\ HasStart) =>
        \A a, b \in 1..Len(scene.elems) :
            (a # b /\ scene.elems[a].tag = scene.elems[b].tag)
                => scene.elems[a].name # scene.elems[b].name

\* a scene with walls at (1, 11) and (11, 1), platforms and jointed blocks
C10_Witness ==
    /\ Constructed /\ HasStart
    /\ \E a \in 1..Len(scene.elems) :
          scene.elems[a].name = <<"block_", "1", "_", "1", "1">>
    /\ \E b \in 1..Len(scene.elems) :
          scene.elems[b].name = <<"block_", "1", "1", "_", "1">>
    /\ \E p \in 1..Len(scene.elems) : scene.elems[p].kind = "platform"
    /\ \E q \in 1..Len(scene.elems) : scene.elems[q].tag = "body"
    /\ \E r \in 1..Len(scene.elems) : scene.elems[r].tag = "joint"

-----------------------------------------------------------------------------
(* Properties of the range sensor *)

\* the distance from the origin of a ray to where it meets each segment of
\* the list, -1 for the segments it does not meet
RayDistances(segs, ray) ==
    [m \in 1..Len(segs) |->
        IF ray_segment_intersect(ray, segs[m].segment) = <<>>
        THEN -1
        ELSE point_distance(ray_segment_intersect(ray, segs[m].segment), ray[1])]
    \o <<>>

\* the positions of the segments a ray meets
RayHits(dist) == { m \in 1..Len(dist) : dist[m] >= 0 }

\* the nearest segment a ray meets, the earliest in the list among equals
RayNearest(dist) ==
    CHOOSE m \in RayHits(dist) :
        \A n \in RayHits(dist) :
            dist[m] < dist[n] \/ (dist[m] = dist[n] /\ m <= n)

\* wall = 0, chasm = 1, movable block = 2, as a position in a row
TypeChannel(type) == IF type = "1" THEN 1 ELSE IF type = "-1" THEN 2 ELSE 3

\* the sensor's reach in world units
MaxRange == cfg.sensor_range * size_scaling

\* fractions with the same value
RatEq(a, b) == a[1] * b[2] = b[1] * a[2]

\* twice the (y, x) centre of the cell whose four segments start at position m
SegCentre2(segs, m) ==
    <<segs[m].segment[1][2] + segs[m + 2].segment[1][2],
      segs[m].segment[1][1] + segs[m + 2].segment[1][1]>>

\* the segment list holds the wall and chasm cells in row-major order, then
\* the movable blocks
SegmentOrder(segs) ==
    /\ \A a, b \in 1..Len(segs) :
          (a < b /\ segs[b].type \in {"1", "-1"}) => segs[a].type \in {"1", "-1"}
    /\ \A a, b \in 1..(Len(segs) \div 4) :
          (a < b /\ segs[4 * b].type \in {"1", "-1"})
              => \/ SegCentre2(segs, 4 * a - 3)[1] < SegCentre2(segs, 4 * b - 3)[1]
                 \/ /\ SegCentre2(segs, 4 * a - 3)[1] = SegCentre2(segs, 4 * b - 3)[1]
                    /\ SegCentre2(segs, 4 * a - 3)[2] < SegCentre2(segs, 4 * b - 3)[2]

\* the row of readings the nearest segment of a ray calls for
RowAsClaimed(row, segs, dist) ==
    /\ IF RayHits(dist) # {} /\ dist[RayNearest(dist)] <= MaxRange
       THEN \A ch \in 1..3 :
              IF ch = TypeChannel(segs[RayNearest(dist)].type)
              THEN RatEq(row[ch], <<MaxRange - dist[RayNearest(dist)], MaxRange>>)
              ELSE row[ch][1] = 0
       ELSE \A ch \in 1..3 : row[ch][1] = 0
    /\ \A ch \in 1..3 : 0 <= row[ch][1] /\ row[ch][1] <= row[ch][2]
    /\ Cardinality({ch \in 1..3 : row[ch][1] # 0}) <= 1

\* C6: for each ray the nearest segment it meets is selected, the earliest
\* in the list (wall and chasm cells row-major, then movable blocks) among
\* equally near ones; within the maximum range the reading
\* (max_range - d) / max_range goes to the channel of that segment's type
\* and the other two stay 0; with nothing met or d beyond the range all
\* three are 0; so every reading is in [0, 1] and at most one channel of a
\* ray is non-zero.
C6_NearestSegmentReading ==
    Returned("get_range_sensor_obs") =>
        \A segs \in {all_segments(env, eng) \o <<>>} :
            /\ SegmentOrder(segs)
            /\ \A k \in 1..cfg.n_bins :
               \A dist \in {RayDistances(segs, <<eng.xy, loc.ray_ori[k]>>)} :
                  RowAsClaimed(ret.readings[k], segs, dist)

\* a ray met a chasm and a wall at the same distance within range, and a
\* ray met a movable block nearest
C6_Witness ==
    /\ Returned("get_range_sensor_obs")
    /\ \E k \in 1..cfg.n_bins : ret.readings[k][3][1] > 0
    /\ \E segs \in {all_segments(env, eng) \o <<>>} :
       \E k \in 1..cfg.n_bins :
       \E dist \in {RayDistances(segs, <<eng.xy, loc.ray_ori[k]>>)} :
       \E m, n \in RayHits(dist) :
          /\ m = RayNearest(dist) /\ m < n
          /\ dist[m] = dist[n]
          /\ segs[m].type = "-1" /\ segs[n].type = "1"
          /\ 0 < dist[m] /\ dist[m] < MaxRange
          /\ ret.readings[k][2][1] > 0

\* C7: with n_bins = N the readings have shape (N, 3), and ray k in
\* 0..N-1 is cast at orientation - span/2 + (2k+1)/(2N) * span: strictly
\* inside (orientation - span/2, orientation + span/2), span/N apart.
C7_RayAngles ==
    Returned("get_range_sensor_obs") =>
        /\ Len(ret.readings) = cfg.n_bins
        /\ \A k \in 1..cfg.n_bins : Len(ret.readings[k]) = 3
        /\ Len(loc.ray_ori) = cfg.n_bins
        /\ \A k \in 0..(cfg.n_bins - 1) :
            LET a == loc.ray_ori[k + 1]
            IN  /\ 2 * cfg.n_bins * a
                     = 2 * cfg.n_bins * eng.ori - cfg.n_bins * cfg.sensor_span
                       + (2 * k + 1) * cfg.sensor_span
                /\ 2 * eng.ori - cfg.sensor_span < 2 * a
                /\ 2 * a < 2 * eng.ori + cfg.sensor_span
                /\ k > 0 => cfg.n_bins * (a - loc.ray_ori[k]) = cfg.sensor_span

\* three rays over three quarters of a turn, a quarter turn apart
C7_Witness ==
    /\ Returned("get_range_sensor_obs")
    /\ cfg.n_bins = 3 /\ cfg.sensor_span = (3 * TwoPi) \div 4
    /\ Len(ret.readings) = 3
    /\ loc.ray_ori = <<eng.ori - TwoPi \div 4, eng.ori, eng.ori + TwoPi \div 4>>


-----------------------------------------------------------------------------
(* Failures of the engine during reset() and step() *)

\* what the engine raises when the simulation fails
EngineFaults == {"MujocoException"}

\* the locals of a call in which the engine raised exc
fault_locals(exc) == [set |-> TRUE, engine_raised |-> exc]

\* what the call returns to its caller when the engine raised exc: reset()
\* and step() have no try block
fault_return(op, exc) == [op |-> op, raised |-> exc]

\* reset() in which wrapped_env.reset() raises: t and trajectory are
\* already assigned
ResetFault ==
    /\ pc = "ready"
    /\ eng.exists
    /\ t' = reset_t
    /\ trajectory' = <<>>
    /\ UNCHANGED <<cfg, pc, env, scene, view, eng>>
    /\ \E exc \in EngineFaults :
          /\ loc' = fault_locals(exc)
          /\ ret' = fault_return("reset", exc)

\* step() in which wrapped_env.step(action) raises: t is already incremented
StepFault ==
    /\ pc = "ready"
    /\ eng.exists /\ t # Unset
    /\ t < MaxSteps
    /\ t' = step_t(t)
    /\ UNCHANGED <<cfg, pc, env, scene, view, eng, trajectory>>
    /\ \E exc \in EngineFaults :
          /\ loc' = fault_locals(exc)
          /\ ret' = fault_return("step", exc)

InitFaults ==
    /\ cfg \in { c \in Configs({"Maze"}, LifeCycleSensors, {FALSE},
                               {NamedTorso}, EngineOutcomes) :
                    ~c.top_down_view /\ ~c.observe_blocks }
    /\ Fresh

NextFaults ==
    \/ Construct
    \/ Reset
    \/ Step
    \/ ResetFault
    \/ StepFault

SpecFaults == InitFaults /\ [][NextFaults]_vars

\* the exception the engine raised in the last reset() or step(), if any
EngineRaised ==
    IF "engine_raised" \in DOMAIN loc THEN loc.engine_raised ELSE "none"

\* __init__ reached the engine's constructor and the constructor raised
EngineConstructorRaised ==
    /\ pc # "new" /\ cfg.maze_id \in MazeIds
    /\ StartCells(Mazes[cfg.maze_id]) # {}
    /\ \A k \in 1..Len(cfg.torso_geoms) : cfg.torso_geoms[k] # "<no name>"
    /\ cfg.engine_outcome # "ok"

\* C11: an exception the engine raises while it is constructed, or during
\* reset or step, reaches the caller: construction does not return an
\* environment after the constructor raised, and a reset or step in which
\* the engine raised raises the same exception.
C11_EngineFaultsPropagate ==
    /\ EngineConstructorRaised =>
          pc = "failed" /\ (ret.op = "__init__" => ret.raised = cfg.engine_outcome)
    /\ (ret.op \in {"reset", "step"} /\ EngineRaised # "none") =>
          ret.raised = EngineRaised


-----------------------------------------------------------------------------
(* Properties of the compiled scene *)

\* the grid has a chasm cell
HasChasm(structure) ==
    \E i \in 1..Len(structure) : \E j \in 1..Len(structure[1]) :
        structure[i][j] = "-1"

\* the platform geometries of a scene centred on the point xy
PlatformsAt(elems, xy) ==
    { k \in 1..Len(elems) :
        /\ elems[k].kind = "platform"
        /\ <<elems[k].pos[1], elems[k].pos[2]>> = xy }

\* height * size_scaling for a grid with a chasm, else 0, over ZDen
ClaimedOffset(structure) ==
    IF HasChasm(structure) THEN (ZDen \div 2) * size_scaling ELSE 0

\* C12: the grid is elevated exactly when it has a chasm cell; an elevated
\* grid gets one platform geometry under every cell that is not a chasm
\* and none under a chasm, with height offset height * size_scaling; a
\* grid that is not elevated gets no platform and height offset 0.
C12_ElevatedPlatforms ==
    (Constructed /\ HasStart) =>
        \A structure \in {Mazes[cfg.maze_id]} :
        \A origin \in {FirstStart(structure)} :
        \A offset \in {ClaimedOffset(structure)} :
            /\ env # NoEnv => env.elevated = HasChasm(structure)
            /\ \A i \in 1..Len(structure) : \A j \in 1..Len(structure[1]) :
                  Cardinality(PlatformsAt(scene.elems,
                      <<(j - 1 - origin[2]) * size_scaling,
                        (i - 1 - origin[1]) * size_scaling>>))
                  = IF HasChasm(structure) /\ structure[i][j] # "-1" THEN 1 ELSE 0
            /\ Cardinality({k \in 1..Len(scene.elems) :
                                scene.elems[k].kind = "platform"})
               = IF HasChasm(structure)
                 THEN Cardinality({rc \in (1..Len(structure)) \X (1..Len(structure[1])) :
                                      structure[rc[1]][rc[2]] # "-1"})
                 ELSE 0
            /\ \A k \in 1..Len(scene.elems) :
                  scene.elems[k].kind = "wall" =>
                      scene.elems[k].pos[3]
                          = <<offset + (ZDen \div 4) * size_scaling, ZDen>>
            /\ eng.exists => eng.z = (3 * ZDen) \div 4 + offset

\* an elevated grid with a wall was compiled and its engine created
C12_Witness ==
    /\ Constructed /\ HasStart
    /\ cfg.maze_id = "Fall" /\ eng.exists /\ env.elevated
    /\ Cardinality({k \in 1..Len(scene.elems) :
                        scene.elems[k].kind = "platform"}) = 5
    /\ \E k \in 1..Len(scene.elems) : scene.elems[k].kind = "wall"


-----------------------------------------------------------------------------
(* The top-down view alone *)

\* a constructed environment with the torso and the blocks anywhere the
\* engine can put them; self._view is as __init__ left it or as a call at
\* the start pose left it
InitView ==
    /\ cfg \in { c \in Configs({"Fall", "Push"}, SensorConfigs, BOOLEAN,
                               {NamedTorso}, {"ok"}) :
                    /\ ~c.manual_collision /\ ~c.observe_blocks /\ ~c.top_down_view
                    /\ c.image_size = 1
                    /\ c.n_bins = 0 /\ c.sensor_span = TwoPi
                    /\ c.sensor_range = 3 /\ c.heading = 0 }
    /\ pc = "ready"
    /\ env = new_env(cfg, construct_maze(cfg.maze_id))
    /\ scene = [elems |-> compile_scene(env.structure, cfg.put_spin_near_agent,
                                        env.elevated, env.init_torso),
                written |-> TRUE]
    /\ \E xy \in ArenaXY(env) :
       \E w \in EngineWorlds(env, scene_body_com(scene.elems)) :
          eng = [new_engine(cfg, env, scene.elems) EXCEPT
                    !.xy = xy, !.z = w.z, !.body_com = w.body_com]
    /\ view \in { zero_view,
                  get_top_down_view(zero_view, env,
                                    new_engine(cfg, env, scene.elems)) }
    /\ t = Unset
    /\ trajectory = NoTrajectory
    /\ ret = [op |-> "__init__", raised |-> "none"]
    /\ loc = NoLoc

NextView == GetTopDownView

SpecView == InitView /\ [][NextView]_vars

\* the view drawn on an empty buffer: the sum, per cell and channel, of the
\* shares of the walls, chasms and blocks around the torso
FreshView ==
    [r \in 1..5 |-> [c \in 1..5 |-> [d \in 1..3 |->
        SumShares(view_updates(env, eng), eng.xy, r - 1, c - 1, d - 1)]]]

\* C13: the top-down view is overwritten by each get_top_down_view call:
\* whatever earlier calls left, the view returned is the one the current
\* torso and block positions and the grid give, it is what the buffer
\* holds, and it has the shape 5 x 5 x 3.
C13_ViewOverwritten ==
    Returned("get_top_down_view") =>
        /\ ret.view = FreshView
        /\ view = ret.view
        /\ Len(ret.view) = 5
        /\ \A r \in 1..5 :
              /\ Len(ret.view[r]) = 5
              /\ \A c \in 1..5 : Len(ret.view[r][c]) = 3
        /\ ~HasChasm(env.structure) =>
              \A r \in 1..5 : \A c \in 1..5 : ret.view[r][c][2] = 0

\* a view was returned away from the start pose with a block in sight
C13_Witness ==
    /\ Returned("get_top_down_view")
    /\ eng.xy # <<0, 0>>
    /\ eng.body_com # eng.init_com
    /\ ret.view # get_top_down_view(zero_view, env,
                                    new_engine(cfg, env, scene.elems))
    /\ \E r \in 1..5 : \E c \in 1..5 : ret.view[r][c][3] > 0
    /\ \E r \in 1..5 : \E c \in 1..5 : ret.view[r][c][1] > 0


-----------------------------------------------------------------------------
(* The range sensor with the torso at any height *)

\* heights the torso passes while it falls off the platform: the level of
\* the platform's top and a step above and below it, over ZDen
FallingZ(e) ==
    IF e.elevated
    THEN { height_offset_of(e.elevated) + dz : dz \in {-1, 0, 1} }
    ELSE {}

\* a constructed environment, rays to the four sides, the torso anywhere in
\* the arena at rest or in its fall
InitBand ==
    /\ cfg \in { c \in Configs({"Fall", "Push"}, SensorConfigs, BOOLEAN,
                               {NamedTorso}, {"ok"}) :
                    /\ ~c.manual_collision /\ ~c.observe_blocks /\ ~c.top_down_view
                    /\ c.image_size = 1
                    /\ c.n_bins = 4 /\ c.sensor_range = 3 }
    /\ pc = "ready"
    /\ env = new_env(cfg, construct_maze(cfg.maze_id))
    /\ scene = [elems |-> compile_scene(env.structure, cfg.put_spin_near_agent,
                                        env.elevated, env.init_torso),
                written |-> TRUE]
    /\ \E xy \in ArenaXY(env) :
       \E w \in EngineWorlds(env, scene_body_com(scene.elems)) :
       \E z \in {w.z} \cup FallingZ(env) :
          eng = [new_engine(cfg, env, scene.elems) EXCEPT
                    !.xy = xy, !.z = z, !.body_com = w.body_com]
    /\ t = Unset
    /\ trajectory = NoTrajectory
    /\ view = zero_view
    /\ ret = [op |-> "__init__", raised |-> "none"]
    /\ loc = NoLoc

NextBand == GetRangeSensorObs

SpecBand == InitBand /\ [][NextBand]_vars


\* the four sides of the square of side size_scaling centred on (cx, cy),
\* each as its pair of end points, tagged with a type
SquareSides(cx, cy, type) ==
    LET h == size_scaling \div 2
    IN  { [ends |-> {<<cx + sx * h, cy + sy * h>>, <<cx + tx * h, cy + ty * h>>},
           type |-> type] :
            <<sx, sy, tx, ty>> \in { <<-1, -1, 1, -1>>, <<1, -1, 1, 1>>,
                                     <<1, 1, -1, 1>>, <<-1, 1, -1, -1>> } }

\* the wall and chasm cells of the grid, as (row, col) from 1
StaticCells(structure) ==
    { rc \in (1..Len(structure)) \X (1..Len(structure[1])) :
        structure[rc[1]][rc[2]] \in {"1", "-1"} }

\* the movable blocks whose vertical band holds the torso's z: half of
\* height * size_scaling to either side of the block's z, bounds included
BlocksInBand ==
    { k \in 1..Len(env.movable_blocks) :
        LET block_z == eng.body_com[env.movable_blocks[k][1]][3][1]
        IN  /\ block_z - (ZDen \div 4) * size_scaling <= eng.z
            /\ eng.z <= block_z + (ZDen \div 4) * size_scaling }

\* the segments the claim calls for, for the positions of the current state
ClaimedSegments ==
    UNION { SquareSides(
                (rc[2] - 1 - FirstStart(env.structure)[2]) * size_scaling,
                (rc[1] - 1 - FirstStart(env.structure)[1]) * size_scaling,
                env.structure[rc[1]][rc[2]]) : rc \in StaticCells(env.structure) }
    \cup
    UNION { SquareSides(eng.body_com[env.movable_blocks[k][1]][1],
                        eng.body_com[env.movable_blocks[k][1]][2],
                        env.movable_blocks[k][2]) : k \in BlocksInBand }

\* C14: each get_range_sensor_obs call builds its segments from the current
\* positions: four sides for every wall and chasm cell, four sides around
\* the current (x, y) of every movable block whose band
\* [block_z - height * size_scaling / 2, block_z + height * size_scaling / 2]
\* holds the torso's z, bounds included, and none for a block outside its
\* band; with no block in its band no ray has a block-channel reading.
C14_SegmentsInBand ==
    Returned("get_range_sensor_obs") =>
        \A segs \in {all_segments(env, eng) \o <<>>} :
            /\ { [ends |-> {segs[m].segment[1], segs[m].segment[2]},
                  type |-> segs[m].type] : m \in 1..Len(segs) } = ClaimedSegments
            /\ Len(segs) = 4 * (Cardinality(StaticCells(env.structure))
                                + Cardinality(BlocksInBand))
            /\ BlocksInBand = {} =>
                  \A k \in 1..cfg.n_bins : ret.readings[k][3][1] = 0

\* the torso was level with the lower bound of one block's band and the
\* block was sensed
C14_Witness ==
    /\ Returned("get_range_sensor_obs")
    /\ \E k \in BlocksInBand :
          eng.z = eng.body_com[env.movable_blocks[k][1]][3][1]
                    - (ZDen \div 4) * size_scaling
    /\ \E k \in 1..cfg.n_bins : ret.readings[k][3][1] > 0


-----------------------------------------------------------------------------
(* Properties of put_spin_near_agent *)

\* the name of the movable body of cell (row, col), rows and columns from 0
BodyNameOf(rc) == <<"movable_">> \o Dec(rc[1]) \o <<"_">> \o Dec(rc[2])

\* the cells compiled as a movable body although the grid does not tag
\* them movable, as (row, col) from 0
ReinterpretedCells(structure, elems) ==
    { rc \in (0..(Len(structure) - 1)) \X (0..(Len(structure[1]) - 1)) :
        /\ structure[rc[1] + 1][rc[2] + 1] \in {"0", "1", "-1", "r"}
        /\ \E k \in 1..Len(elems) :
              elems[k].tag = "body" /\ elems[k].name = BodyNameOf(rc) }

\* cells that share a side
Adjacent(a, b) == Abs(a[1] - b[1]) + Abs(a[2] - b[2]) = 1

\* the cell is compiled as a body with a rotational joint
SpinBodyAt(elems, rc) ==
    /\ \E k \in 1..Len(elems) :
          elems[k].tag = "body" /\ elems[k].name = BodyNameOf(rc)
    /\ \E k \in 1..Len(elems) :
          /\ elems[k].tag = "joint" /\ elems[k].kind = "ball"
          /\ elems[k].parent = BodyNameOf(rc)

\* C15 as stated: with put_spin_near_agent set, the reinterpreted cell is
\* a wall-like cell next to the robot-start cell, compiled as a movable
\* body with a rotational joint; with the flag unset no cell is
\* reinterpreted.
C15_SpinNextToStart ==
    (Constructed /\ HasStart) =>
        \A structure \in {Mazes[cfg.maze_id]} :
        \A cells \in {ReinterpretedCells(structure, scene.elems)} :
            IF cfg.put_spin_near_agent
            THEN /\ cells # {}
                 /\ \A rc \in cells :
                      /\ structure[rc[1] + 1][rc[2] + 1] # "r"
                      /\ \E st \in StartCells(structure) : Adjacent(rc, st)
                      /\ SpinBodyAt(scene.elems, rc)
            ELSE cells = {}

\* C15: with put_spin_near_agent set, the cells reinterpreted as a
\* spin-capable movable block are the robot-start cells themselves: each
\* is compiled as a movable body with a rotational joint, a quarter cell
\* along x from the cell's centre, and recorded in movable_blocks; with the
\* flag unset no cell is reinterpreted.
C15_SpinAtStart ==
    (Constructed /\ HasStart) =>
        \A structure \in {Mazes[cfg.maze_id]} :
        \A origin \in {FirstStart(structure)} :
        \A cells \in {ReinterpretedCells(structure, scene.elems)} :
            IF cfg.put_spin_near_agent
            THEN /\ cells = StartCells(structure)
                 /\ \A rc \in cells :
                      /\ SpinBodyAt(scene.elems, rc)
                      /\ \E k \in 1..Len(scene.elems) :
                            /\ scene.elems[k].name = BodyNameOf(rc)
                            /\ scene.elems[k].pos[1]
                                 = (rc[2] - origin[2]) * size_scaling
                                   + size_scaling \div 4
                            /\ scene.elems[k].pos[2]
                                 = (rc[1] - origin[1]) * size_scaling
                      /\ env # NoEnv =>
                            \E k \in 1..Len(env.movable_blocks) :
                                env.movable_blocks[k][1] = BodyNameOf(rc)
            ELSE cells = {}

\* a grid with two start cells was compiled with the flag set
C15_Witness ==
    /\ Constructed /\ HasStart
    /\ cfg.put_spin_near_agent /\ cfg.maze_id = "Two"
    /\ pc = "ready"
    /\ ReinterpretedCells(Mazes[cfg.maze_id], scene.elems) = {<<0, 2>>, <<1, 0>>}
    /\ Len(env.movable_blocks) = 2


-----------------------------------------------------------------------------
(* Manual collision over a run of steps *)

\* C16: in manual-collision mode a step that starts outside every wall
\* cell's bounds ends outside them, and the position at the end of a step
\* is the engine's new position or the position before the step; so from
\* a reset outside the walls every later step ends outside the walls.
C16_StaysOutOfWalls ==
    [][ (ret'.op = "step" /\ ret'.raised = "none" /\ cfg.manual_collision) =>
            /\ loc'.old_pos = eng.xy
            /\ eng'.xy \in {loc'.old_pos, loc'.new_pos}
            /\ ~InWallSquare(env.structure, eng.xy)
                  => ~InWallSquare(env.structure, eng'.xy) ]_vars

\* the second step after a reset outside the walls was rolled back
C16_Witness ==
    /\ Returned("step") /\ cfg.manual_collision
    /\ t = 2
    /\ InWallSquare(env.structure, loc.new_pos)
    /\ eng.xy = loc.old_pos
    /\ ~InWallSquare(env.structure, eng.xy)

====
